---- MODULE Spec2Model ----
(***************************************************************************)
(* Lifecycle orchestration of the lab manager: the commands bootstrap, up  *)
(* and down acting on the persisted LabState (.lab/state.json), the        *)
(* Terraform modules, the cluster and the Helm releases.                   *)
(*                                                                         *)
(* One CLI process runs at a time.  An invocation loads the state file,    *)
(* runs the command step by step (pc), and every external call may fail.   *)
(* The process may be killed between two steps or in the middle of a       *)
(* write of the state file.                                                *)
(***************************************************************************)
EXTENDS Integers, Sequences, FiniteSets, TLC

VARIABLES
    disk,       \* the state file: [exists, intact, rec]
    st,         \* the LabState object held by the running command
    pc,         \* position of the running command, "idle" when none runs
    cmd,        \* the command line of the running command
    calls,      \* external calls made by the running command, in order
    outcome,    \* how the running command ended: none, ok, fail, aborted
    now,        \* the clock as the running command reads it
    runs,       \* number of invocations so far
    releases,   \* Helm releases installed in the cluster
    prev,       \* what the running command knows to have preceded it
    loaded,     \* the persisted record the running command started from
    pending,    \* undeploy branches of down started and not yet settled
    poll        \* the readiness wait in progress, if any

\* The variables of the commands, all but the readiness wait.
cmdvars ==
    <<disk, st, pc, cmd, calls, outcome, now, runs, releases, prev, loaded, pending>>

vars ==
    <<disk, st, pc, cmd, calls, outcome, now, runs, releases, prev, loaded, pending,
      poll>>

\* ------------------------------------------------------------------------
\* Bounds

\* Number of invocations of the CLI in a run.
MaxRuns == 3

\* ------------------------------------------------------------------------
\* Static data

availableComponents == {"keycloak", "polaris", "trino", "spark", "opa"}

Namespace(c) ==
    CASE c = "keycloak" -> "keycloak"
      [] c = "polaris"  -> "polaris"
      [] c = "trino"    -> "trino"
      [] c = "spark"    -> "spark"
      [] c = "opa"      -> "opa"

Release(c) ==
    CASE c = "keycloak" -> "keycloak"
      [] c = "polaris"  -> "polaris"
      [] c = "trino"    -> "trino"
      [] c = "spark"    -> "spark-operator"
      [] c = "opa"      -> "opa"

\* An entry of LabState.components; present = FALSE is a missing key.
NoComponent ==
    [present |-> FALSE, deployed |-> FALSE, namespace |-> "",
     release_name |-> "", deployed_at |-> 0]

\* deployed_at = 0 stands for a record without the deployed_at key.
ComponentState(c, dep, at) ==
    [present |-> TRUE, deployed |-> dep, namespace |-> Namespace(c),
     release_name |-> Release(c), deployed_at |-> at]

\* The required phase flags of LabState.
PhaseFlags == {"bootstrapped", "foundation_deployed", "eks_deployed"}

\* The record loadState returns when there is no state file.  absent is the
\* set of phase flags the JSON text of the record has no key for; such a
\* flag reads as undefined, which every test of the commands takes for
\* false, and gets its key when it is first assigned.
InitialState ==
    [created_at          |-> 0,
     updated_at          |-> 0,
     bootstrapped        |-> FALSE,
     bootstrap_outputs   |-> FALSE,
     foundation_deployed |-> FALSE,
     foundation_outputs  |-> FALSE,
     eks_deployed        |-> FALSE,
     eks_outputs         |-> FALSE,
     cluster_ready       |-> FALSE,
     cluster_context     |-> FALSE,
     essentials_deployed |-> FALSE,
     components          |-> [c \in availableComponents |-> NoComponent],
     absent              |-> {}]

NoCmd ==
    [op |-> "none", dryRun |-> FALSE, force |-> FALSE, skipFoundation |-> FALSE,
     all |-> FALSE, skipEssentials |-> FALSE, skipComponents |-> FALSE,
     destroyFoundation |-> FALSE, components |-> {}]

NoFile == [exists |-> FALSE, intact |-> TRUE, rec |-> InitialState]

\* ------------------------------------------------------------------------
\* StateStore

\* The file after a completed writeFileSync of s.
File(s) == [exists |-> TRUE, intact |-> TRUE, rec |-> s]

\* The file when the process dies inside writeFileSync: the file has been
\* opened for writing (truncated) and holds a proper prefix of the new text,
\* which is no record at all (rec is a placeholder that is never read).
TornFile(s) == [exists |-> TRUE, intact |-> FALSE, rec |-> InitialState]

\* loadState: the parsed file, or a fresh record; JSON.parse throws on a
\* truncated file (LoadFails).
LoadFails == disk.exists /\ ~disk.intact

\* The clock is read by loadState and saveState only, and the timestamps
\* are never compared: a command reads the first instant after the newest
\* timestamp in the state file.
Clock == IF disk.exists /\ disk.intact THEN disk.rec.updated_at + 1 ELSE 1

loadState ==
    IF disk.exists THEN disk.rec
    ELSE [InitialState EXCEPT !.created_at = Clock, !.updated_at = Clock]

\* saveState(s) followed by a move to position next; the write either
\* completes, or the process is killed while the file is being written
\* (position "torn": the process is gone and nothing of it is left but the
\* file).
Stamp(s) == [s EXCEPT !.updated_at = now]

saveState(s, next, out) ==
    \/ /\ st' = Stamp(s)
       /\ disk' = File(Stamp(s))
       /\ pc' = next
       /\ outcome' = out
    \/ /\ disk' = TornFile(Stamp(s))
       /\ pc' = "torn"
       /\ st' = InitialState
       /\ outcome' = "none"

\* The step's external calls are added to the log of the running command.
Log(entries) == calls' = IF pc' = "torn" THEN <<>> ELSE calls \o entries

updateBootstrapState(s) ==
    [s EXCEPT !.bootstrapped = TRUE, !.bootstrap_outputs = TRUE,
              !.absent = @ \ {"bootstrapped"}]

updateFoundationState(s) ==
    [s EXCEPT !.foundation_deployed = TRUE, !.foundation_outputs = TRUE,
              !.absent = @ \ {"foundation_deployed"}]

updateEksState(s) ==
    [s EXCEPT !.eks_deployed = TRUE, !.eks_outputs = TRUE,
              !.absent = @ \ {"eks_deployed"}]

updateClusterReadyState(s, essentialsDeployed) ==
    [s EXCEPT !.cluster_ready = TRUE, !.cluster_context = TRUE,
              !.essentials_deployed = essentialsDeployed]

\* clearEphemeralState forgetting the readiness flag.
clearEphemeralState_keepsReady(s) ==
    [s EXCEPT !.eks_deployed = FALSE, !.eks_outputs = FALSE,
              !.cluster_context = FALSE, !.essentials_deployed = FALSE,
              !.absent = @ \ {"eks_deployed"}]

clearEphemeralState(s) ==
    [s EXCEPT !.eks_deployed = FALSE, !.eks_outputs = FALSE,
              !.cluster_ready = FALSE, !.cluster_context = FALSE,
              !.essentials_deployed = FALSE,
              !.absent = @ \ {"eks_deployed"}]

updateComponentState(s, c, cs) == [s EXCEPT !.components[c] = cs]

clearComponentState(s, c) == [s EXCEPT !.components[c] = NoComponent]

\* ------------------------------------------------------------------------
\* Process start and end

\* No readiness wait is running.
PollIdle ==
    [wait |-> "none", timeout |-> 0, elapsed |-> 0, checks |-> 0,
     at |-> "idle", result |-> "none", last |-> "none", cancel |-> FALSE]

\* Nothing is remembered of the previous invocation unless the running one
\* was started by Rerun or Resume.
NoPrev == [cmd |-> NoCmd, outcome |-> "none"]

Init ==
    /\ disk = NoFile
    /\ st = InitialState
    /\ pc = "idle"
    /\ cmd = NoCmd
    /\ calls = <<>>
    /\ outcome = "none"
    /\ now = 0
    /\ runs = 0
    /\ releases = {}
    /\ prev = NoPrev
    /\ loaded = NoFile
    /\ pending = {}
    /\ poll = PollIdle

\* cli.ts action handlers: loadConfig, loadState, then the command.  A
\* state file that does not parse ends the process with exit code 1.
Launch(c, first) ==
    /\ runs < MaxRuns
    /\ runs' = runs + 1
    /\ now' = Clock
    /\ cmd' = c
    /\ calls' = <<>>
    /\ loaded' = disk
    /\ pending' = {}
    /\ poll' = PollIdle
    /\ IF LoadFails
       THEN /\ pc' = "exited"
            /\ outcome' = "fail"
            /\ st' = InitialState
       ELSE /\ pc' = first
            /\ outcome' = "none"
            /\ st' = loadState
    /\ UNCHANGED <<disk, releases>>

Start(c, first) ==
    /\ pc = "idle"
    /\ Launch(c, first)
    /\ UNCHANGED prev

\* The command returns normally (exit code 0).
Return ==
    /\ pc' = "exited"
    /\ outcome' = "ok"

\* The catch clause of the command logging the error without exiting.
Throw_exitsZero ==
    /\ pc' = "exited"
    /\ outcome' = "ok"

\* An error reaches the command boundary: process.exit(1).
Throw ==
    /\ pc' = "exited"
    /\ outcome' = "fail"

\* The process has ended; the next invocation starts from the state file.
Exit ==
    /\ pc = "exited"
    /\ pc' = "idle"
    /\ prev' = NoPrev
    /\ st' = InitialState
    /\ cmd' = NoCmd
    /\ calls' = <<>>
    /\ outcome' = "none"
    /\ pending' = {}
    /\ loaded' = NoFile
    /\ now' = 0
    /\ poll' = PollIdle
    /\ UNCHANGED <<disk, runs, releases>>

\* The process is gone without having ended by itself.
Killed ==
    /\ pc' = "idle"
    /\ prev' = NoPrev
    /\ st' = InitialState
    /\ cmd' = NoCmd
    /\ calls' = <<>>
    /\ outcome' = "none"
    /\ pending' = {}
    /\ loaded' = NoFile
    /\ now' = 0
    /\ poll' = PollIdle

\* The process is killed between two steps.
Abort ==
    /\ pc \notin {"idle", "exited"}
    /\ Killed
    /\ UNCHANGED <<disk, runs, releases>>

\* An up that ended with exit code 0 is invoked again with the same command
\* line.
Rerun ==
    /\ pc = "exited"
    /\ cmd.op = "up"
    /\ outcome = "ok"
    /\ prev' = [cmd |-> cmd, outcome |-> outcome]
    /\ Launch(cmd, "u_preflight")

\* An up is killed between two steps or during a save, and the next
\* invocation is an up.
Resume ==
    /\ pc \notin {"idle", "exited"}
    /\ cmd.op = "up"
    /\ prev' = [cmd |-> [NoCmd EXCEPT !.op = "up"], outcome |-> "aborted"]
    /\ \E d \in BOOLEAN, f \in BOOLEAN, sc \in BOOLEAN :
        Launch([NoCmd EXCEPT !.op = "up", !.dryRun = d, !.force = f,
                             !.skipComponents = sc], "u_preflight")

\* ------------------------------------------------------------------------
\* Readiness waits.  Time is counted in units of five seconds.

\* Longest timeout that is tried; the ten minutes of the waits of up are
\* scaled down to it.
MaxTimeout == 6

\* The waits: cluster active (aws.ts), nodes ready (kubernetes.ts), pods of
\* a component running (waitFor<Component>Ready).
Waits == {"eks", "nodes", "pods"}

\* pollInterval of each wait.
PollInterval(w) ==
    CASE w = "eks"   -> 3
      [] w = "nodes" -> 2
      [] w = "pods"  -> 3

\* What one check of a wait can observe.  not_found is the resource not
\* being there yet, query_error the status command itself failing.
CheckOutcomes(w) ==
    CASE w = "eks"   -> {"ACTIVE", "CREATING", "FAILED", "DELETING",
                         "not_found", "query_error"}
      [] w = "nodes" -> {"all_ready", "some_ready", "not_found", "query_error"}
      [] w = "pods"  -> {"Running", "Pending", "not_found", "query_error"}

\* The cluster wait taking FAILED and DELETING for states that may pass.
Classify_patient(w, o) ==
    CASE w = "eks" /\ o = "ACTIVE"       -> "ready"
      [] w = "eks" /\ o = "query_error"  -> "fatal"
      [] w = "nodes" /\ o = "all_ready"  -> "ready"
      [] w = "pods" /\ o = "Running"     -> "ready"
      [] OTHER                           -> "notready"

\* What the loop body does with an observation: return (ready), throw
\* (fatal) or sleep and go round again (notready).  getEksClusterStatus
\* returns null when the cluster is not found and throws on any other
\* failure of the query, which waitForEksClusterActive does not catch; the
\* other waits catch every error of their check.
Classify(w, o) ==
    CASE w = "eks" /\ o = "ACTIVE"                 -> "ready"
      [] w = "eks" /\ o \in {"FAILED", "DELETING"} -> "fatal"
      [] w = "eks" /\ o = "query_error"            -> "fatal"
      [] w = "nodes" /\ o = "all_ready"            -> "ready"
      [] w = "pods" /\ o = "Running"               -> "ready"
      [] OTHER                                     -> "notready"

\* The wait is entered: startTime is taken.
PollBegin(w, t) ==
    poll' = [PollIdle EXCEPT !.wait = w, !.timeout = t, !.at = "test"]

\* A wait is called on its own, with any timeout.
PollStart ==
    /\ poll.at = "idle"
    /\ \E w \in Waits, t \in 0..MaxTimeout : PollBegin(w, t)
    /\ UNCHANGED cmdvars

\* The loop condition admitting the instant of the timeout.
PollTest_inclusive ==
    /\ poll.at = "test"
    /\ poll' = IF poll.elapsed <= poll.timeout
               THEN [poll EXCEPT !.at = "check"]
               ELSE [poll EXCEPT !.at = "done", !.result = "timeout"]
    /\ UNCHANGED cmdvars

\* while (Date.now() - startTime < timeoutMs), and the throw after the loop
PollTest ==
    /\ poll.at = "test"
    /\ poll' = IF poll.elapsed < poll.timeout
               THEN [poll EXCEPT !.at = "check"]
               ELSE [poll EXCEPT !.at = "done", !.result = "timeout"]
    /\ UNCHANGED cmdvars

\* The loop body up to the sleep.
PollCheck ==
    /\ poll.at = "check"
    /\ \E o \in CheckOutcomes(poll.wait) :
        LET r == Classify(poll.wait, o)
        IN  poll' = [poll EXCEPT !.checks = @ + 1, !.last = o,
                                 !.at = IF r = "notready" THEN "sleep" ELSE "done",
                                 !.result = IF r = "notready" THEN "none" ELSE r]
    /\ UNCHANGED cmdvars

\* A sleep that is shorter than the poll interval.
PollSleep_short ==
    /\ poll.at = "sleep"
    /\ poll' = [poll EXCEPT !.elapsed = @ + 1, !.at = "test"]
    /\ UNCHANGED cmdvars

\* await new Promise((resolve) => setTimeout(resolve, pollInterval))
PollSleep ==
    /\ poll.at = "sleep"
    /\ poll' = [poll EXCEPT !.elapsed = @ + PollInterval(poll.wait), !.at = "test"]
    /\ UNCHANGED cmdvars

\* The caller asks for the wait to stop.  The waits take no signal and
\* their loops look at the clock only.
PollCancel ==
    /\ poll.at \in {"test", "check", "sleep"}
    /\ ~poll.cancel
    /\ poll' = [poll EXCEPT !.cancel = TRUE]
    /\ UNCHANGED cmdvars

\* The wait has returned or thrown.
PollEnd ==
    /\ poll.at = "done"
    /\ poll' = PollIdle
    /\ UNCHANGED cmdvars

PollNext ==
    \/ PollStart
    \/ PollTest
    \/ PollCheck
    \/ PollSleep
    \/ PollCancel
    \/ PollEnd

PollSpec == Init /\ [][PollNext]_vars

PollFairSpec == PollSpec /\ WF_vars(PollTest \/ PollCheck \/ PollSleep)

\* ------------------------------------------------------------------------
\* bootstrap

BootstrapStart ==
    \E d \in BOOLEAN, sf \in BOOLEAN, f \in BOOLEAN :
        Start([NoCmd EXCEPT !.op = "bootstrap", !.dryRun = d,
                            !.skipFoundation = sf, !.force = f], "b_check")

\* The check going on to the final save when nothing is left to do.
BootstrapCheck_resaves ==
    /\ pc = "b_check"
    /\ IF st.bootstrapped /\ ~cmd.force
       THEN IF ~st.foundation_deployed /\ ~cmd.skipFoundation
            THEN pc' = "b_foundation" /\ outcome' = outcome
            ELSE IF st.foundation_deployed
                 THEN pc' = "b_final" /\ outcome' = outcome
                 ELSE pc' = "b_foundation" /\ outcome' = outcome
       ELSE pc' = "b_backend" /\ outcome' = outcome
    /\ UNCHANGED <<disk, st, cmd, calls, now, runs, releases, prev, loaded, pending, poll>>

\* bootstrap.ts 108-119: what is left to do.
BootstrapCheck ==
    /\ pc = "b_check"
    /\ IF st.bootstrapped /\ ~cmd.force
       THEN IF ~st.foundation_deployed /\ ~cmd.skipFoundation
            THEN pc' = "b_foundation" /\ outcome' = outcome
            ELSE IF st.foundation_deployed
                 THEN Return
                 ELSE pc' = "b_foundation" /\ outcome' = outcome
       ELSE pc' = "b_backend" /\ outcome' = outcome
    /\ UNCHANGED <<disk, st, cmd, calls, now, runs, releases, prev, loaded, pending, poll>>

\* A stage whose failed apply is run a second time.
TerraformStage_retries(module, dry, res) ==
    IF dry
    THEN CASE res = "init_fail" -> <<"init:" \o module>>
           [] OTHER             -> <<"init:" \o module, "plan:" \o module>>
    ELSE CASE res = "init_fail"   -> <<"init:" \o module>>
           [] res = "run_fail"    -> <<"init:" \o module, "apply:" \o module,
                                       "apply:" \o module, "failed:" \o module>>
           [] OTHER               -> <<"init:" \o module, "apply:" \o module,
                                       "output:" \o module>>

\* A Terraform stage: init, then plan (dry run) or apply and output.  The
\* stage fails at init, plan, apply or output, or yields the outputs; a
\* failed apply is followed by its error ("failed:<module>").
TerraformStage(module, dry, res) ==
    IF dry
    THEN CASE res = "init_fail" -> <<"init:" \o module>>
           [] res = "run_fail"  -> <<"init:" \o module, "plan:" \o module>>
           [] OTHER             -> <<"init:" \o module, "plan:" \o module>>
    ELSE CASE res = "init_fail"   -> <<"init:" \o module>>
           [] res = "run_fail"    -> <<"init:" \o module, "apply:" \o module,
                                       "failed:" \o module>>
           [] res = "output_fail" -> <<"init:" \o module, "apply:" \o module,
                                       "output:" \o module>>
           [] OTHER               -> <<"init:" \o module, "apply:" \o module,
                                       "output:" \o module>>

StageResults == {"init_fail", "run_fail", "output_fail", "ok"}

StageOk(dry, res) == res = "ok" \/ (dry /\ res = "output_fail")

\* bootstrapStateBackend keeping its outputs in memory only, to be written
\* by the final save.
BootstrapStateBackend_unsaved ==
    /\ pc = "b_backend"
    /\ \E res \in StageResults :
        /\ calls' = calls \o TerraformStage("bootstrap", cmd.dryRun, res)
        /\ IF ~StageOk(cmd.dryRun, res)
           THEN Throw /\ UNCHANGED <<disk, st>>
           ELSE /\ pc' = "b_foundation"
                /\ st' = IF cmd.dryRun THEN st ELSE updateBootstrapState(st)
                /\ UNCHANGED <<disk, outcome>>
    /\ UNCHANGED <<cmd, now, runs, releases, prev, loaded, pending, poll>>

\* bootstrapStateBackend
BootstrapStateBackend ==
    /\ pc = "b_backend"
    /\ \E res \in StageResults :
        /\ IF ~StageOk(cmd.dryRun, res)
           THEN Throw /\ UNCHANGED <<disk, st>>
           ELSE IF cmd.dryRun
                THEN /\ pc' = "b_foundation"
                     /\ UNCHANGED <<disk, st, outcome>>
                ELSE saveState(updateBootstrapState(st), "b_foundation", outcome)
        /\ Log(TerraformStage("bootstrap", cmd.dryRun, res))
    /\ UNCHANGED <<cmd, now, runs, releases, prev, loaded, pending, poll>>

\* bootstrap.ts 121-128 with deployFoundation
DeployFoundation ==
    /\ pc = "b_foundation"
    /\ IF cmd.skipFoundation \/ (st.foundation_deployed /\ ~cmd.force)
       THEN /\ pc' = "b_final"
            /\ UNCHANGED <<disk, st, calls, outcome>>
       ELSE IF ~st.bootstrap_outputs
            THEN Throw /\ UNCHANGED <<disk, st, calls>>
            ELSE \E res \in StageResults :
                /\ IF ~StageOk(cmd.dryRun, res)
                   THEN Throw /\ UNCHANGED <<disk, st>>
                   ELSE IF cmd.dryRun
                        THEN /\ pc' = "b_final"
                             /\ UNCHANGED <<disk, st, outcome>>
                        ELSE saveState(updateFoundationState(st), "b_final", outcome)
                /\ Log(TerraformStage("foundation", cmd.dryRun, res))
    /\ UNCHANGED <<cmd, now, runs, releases, prev, loaded, pending, poll>>

\* bootstrap.ts 130-135: the final save
BootstrapFinal ==
    /\ pc = "b_final"
    /\ IF cmd.dryRun
       THEN Return /\ UNCHANGED <<disk, st>>
       ELSE saveState(st, "exited", "ok")
    /\ Log(<<>>)
    /\ UNCHANGED <<cmd, now, runs, releases, prev, loaded, pending, poll>>

\* ------------------------------------------------------------------------
\* up

\* Component names given on the command line.
ComponentArgs ==
    {{"keycloak"}, {"trino"}, {"keycloak", "trino"}, {"polaris", "trino"},
     {"Trino", "kafka"}}

\* Switches of up given together on a command line with the default
\* components.
UpSwitches ==
    {{}, {"dryRun"}, {"force"}, {"skipEssentials"}, {"skipComponents"},
     {"dryRun", "force"}}

\* The command lines of up that are tried: the switches with the default
\* components, --all with and without --force, and component names.
UpStart ==
    \/ \E sw \in UpSwitches :
        Start([NoCmd EXCEPT !.op = "up", !.dryRun = "dryRun" \in sw,
                            !.force = "force" \in sw,
                            !.skipEssentials = "skipEssentials" \in sw,
                            !.skipComponents = "skipComponents" \in sw],
              "u_preflight")
    \/ \E f \in BOOLEAN :
        Start([NoCmd EXCEPT !.op = "up", !.all = TRUE, !.force = f], "u_preflight")
    \/ \E cs \in ComponentArgs :
        Start([NoCmd EXCEPT !.op = "up", !.components = cs], "u_preflight")

\* The record the running command was given by loadState.
LoadedState == IF loaded.exists THEN loaded.rec ELSE InitialState

\* preFlightChecks: the foundation must be recorded, the tools installed.
PreFlightChecks ==
    /\ pc = "u_preflight"
    /\ IF ~st.foundation_deployed \/ ~st.bootstrap_outputs
       THEN Throw
       ELSE \E toolsInstalled \in BOOLEAN :
                IF toolsInstalled
                THEN pc' = "u_eks" /\ outcome' = outcome
                ELSE Throw
    /\ UNCHANGED <<disk, st, cmd, calls, now, runs, releases, prev, loaded, pending, poll>>

\* up.ts 469: computed once, before the cluster is provisioned.
needsProvisioning == ~LoadedState.eks_deployed \/ cmd.force

\* up.ts 468-479 with deployEks
DeployEks ==
    /\ pc = "u_eks"
    /\ IF ~needsProvisioning
       THEN /\ pc' = "u_ready"
            /\ UNCHANGED <<disk, st, calls, outcome>>
       ELSE \E res \in StageResults :
            /\ IF ~StageOk(cmd.dryRun, res)
               THEN Throw /\ UNCHANGED <<disk, st>>
               ELSE IF cmd.dryRun
                    THEN Return /\ UNCHANGED <<disk, st>>
                    ELSE saveState(updateEksState(st), "u_ready", outcome)
            /\ Log(TerraformStage("ephemeral", cmd.dryRun, res))
    /\ UNCHANGED <<cmd, now, runs, releases, prev, loaded, pending, poll>>

\* up.ts 481-489 with waitForClusterReady: the cluster-active wait, the
\* kubeconfig update and the node-ready wait, then the checkpoint.
ReadyResults == {"kubeconfig_fail", "nodes_fail", "ok"}

ReadyCalls(res) == <<"kubeconfig">>

\* The wait for the cluster is due: up.ts 481-482 and the check of the
\* outputs in waitForClusterReady.
ClusterWaitDue ==
    /\ needsProvisioning \/ ~st.cluster_ready
    /\ st.eks_outputs

\* waitForClusterReady calls waitForEksClusterActive with its ten minutes.
WaitForEksClusterActive ==
    /\ pc = "u_ready"
    /\ ClusterWaitDue
    /\ poll.at = "idle"
    /\ PollBegin("eks", MaxTimeout)
    /\ UNCHANGED cmdvars

\* The rest of the step once the cluster wait has ended: its error goes up
\* to the command; otherwise the kubeconfig update and the node-ready wait,
\* then the checkpoint.
WaitForClusterReady ==
    /\ pc = "u_ready"
    /\ IF ~(needsProvisioning \/ ~st.cluster_ready)
       THEN /\ pc' = "u_essentials"
            /\ UNCHANGED <<disk, st, calls, outcome, poll>>
       ELSE IF ~st.eks_outputs
            THEN Throw /\ UNCHANGED <<disk, st, calls, poll>>
            ELSE /\ poll.at = "done"
                 /\ IF poll.result # "ready"
                    THEN Throw /\ UNCHANGED <<disk, st, calls, poll>>
                    ELSE /\ poll' = PollIdle
                         /\ \E res \in ReadyResults :
                             /\ IF res # "ok"
                                THEN Throw /\ UNCHANGED <<disk, st>>
                                ELSE saveState(updateClusterReadyState(st, FALSE),
                                               "u_essentials", outcome)
                             /\ Log(ReadyCalls(res))
    /\ UNCHANGED <<cmd, now, runs, releases, prev, loaded, pending>>

\* up.ts 491-503 with deployEssentials: the namespaces and the secret.
EssentialsResults == {"namespace_fail", "secret_fail", "ok"}

EssentialsCalls(res) ==
    IF res = "namespace_fail" THEN <<"createNamespace">>
    ELSE <<"createNamespace", "createSecret">>

DeployEssentials ==
    /\ pc = "u_essentials"
    /\ IF ~(~cmd.skipEssentials /\ (~st.essentials_deployed \/ cmd.force))
       THEN /\ pc' = "u_components"
            /\ UNCHANGED <<disk, st, calls, outcome>>
       ELSE IF ~st.foundation_outputs
            THEN Throw /\ UNCHANGED <<disk, st, calls>>
            ELSE \E res \in EssentialsResults :
                /\ IF res # "ok"
                   THEN Throw /\ UNCHANGED <<disk, st>>
                   ELSE saveState(updateClusterReadyState(st, TRUE),
                                  "u_components", outcome)
                /\ Log(EssentialsCalls(res))
    /\ UNCHANGED <<cmd, now, runs, releases, prev, loaded, pending, poll>>

\* String.prototype.toLowerCase on the names that are tried.
toLowerCase(c) ==
    CASE c = "Trino" -> "trino"
      [] c = "YES"   -> "yes"
      [] c = "Lab"   -> "lab"
      [] OTHER       -> c

\* deployComponents 326-351: the components this invocation deploys; a name
\* is kept as it was typed when its lower-case form is a component.
componentsToDeploy ==
    IF cmd.all THEN availableComponents
    ELSE IF cmd.components # {}
         THEN {c \in cmd.components : toLowerCase(c) \in availableComponents}
    ELSE {"keycloak", "polaris"}

\* The blocks of polaris and trino exchanged.
BlockOrder_trinoFirst == <<"keycloak", "trino", "polaris", "spark", "opa">>

\* deployComponents 363-440: the numbered blocks, in source order; the
\* position of the block of component BlockOrder[i] is "u_<component>".
BlockOrder == <<"keycloak", "polaris", "trino", "spark", "opa">>

BlockPc(i) == IF i > Len(BlockOrder) THEN "u_final" ELSE "u_" \o BlockOrder[i]

\* The position reached when the block of component c is done.
AfterBlock(c) ==
    BlockPc((CHOOSE i \in 1..Len(BlockOrder) : BlockOrder[i] = c) + 1)

\* deployComponents 337-340: the names given that are no component in any
\* case.
invalid ==
    IF ~cmd.all /\ cmd.components # {}
    THEN {c \in cmd.components : toLowerCase(c) \notin availableComponents}
    ELSE {}

\* deployComponents 341-347: the warning, which lists the invalid names.
RECURSIVE UnknownWarning(_)
UnknownWarning(names) ==
    IF names = {} THEN <<>>
    ELSE LET c == CHOOSE n \in names : TRUE
         IN  <<"unknown:" \o c>> \o UnknownWarning(names \ {c})

\* up.ts 505-510 and deployComponents 326-356
UpComponents ==
    /\ pc = "u_components"
    /\ IF ~cmd.skipComponents /\ ~cmd.dryRun
       THEN /\ calls' = calls \o UnknownWarning(invalid)
            /\ pc' = IF componentsToDeploy # {} THEN BlockPc(1) ELSE "u_final"
       ELSE /\ calls' = calls
            /\ pc' = "u_final"
    /\ UNCHANGED <<disk, st, cmd, outcome, now, runs, releases, prev, loaded, pending, poll>>

\* The ways a deploy<Component> call can end once it installs: a step
\* before the install fails (prepare_fail), the install fails, the readiness
\* wait fails with the release installed, or the deployment succeeds.  The
\* failure after the install is tried on keycloak, the failure before it on
\* polaris, whose install sits in a try block of its own.
DeployResults(c) ==
    CASE c = "keycloak" -> {"install_fail", "ready_fail", "ok"}
      [] c = "polaris"  -> {"prepare_fail", "install_fail", "ok"}
      [] OTHER          -> {"install_fail", "ok"}

DeployCalls(c, res) ==
    CASE res = "prepare_fail" -> <<"deploy:" \o c, "prepare:" \o c>>
      [] OTHER -> <<"deploy:" \o c, "prepare:" \o c, "install:" \o c>>

InstallsRelease(res) == res \in {"ready_fail", "ok"}

\* What deploy<Component> returns ("throw" when it throws).  hard is the
\* component that must be recorded as deployed, swallow tells whether a
\* failing install is turned into a deployed=false record (deployPolaris).
DeployReturn(c, hard, swallow, res) ==
    IF hard # "none" /\ ~st.components[hard].deployed THEN "throw"
    ELSE IF c \in releases /\ ~cmd.force THEN "exists"
    ELSE IF res = "ok" THEN "deployed"
    ELSE IF swallow /\ res = "install_fail" THEN "skipped"
    ELSE "throw"

DeployRecord(c, ret) ==
    CASE ret = "exists"   -> ComponentState(c, TRUE, 0)
      [] ret = "deployed" -> ComponentState(c, TRUE, now)
      [] ret = "skipped"  -> ComponentState(c, FALSE, 0)

\* One numbered block of deployComponents: the deploy call, then either the
\* component record is stored and saved, or the error is handled: reported
\* ("failed:<component>", the console.error of the catch clause) and then
\* rethrown (rethrow) or passed over.
DeployBlock(c, hard, swallow, rethrow) ==
    LET next == AfterBlock(c) IN
    IF c \notin componentsToDeploy
    THEN /\ pc' = next
         /\ UNCHANGED <<disk, st, calls, outcome, releases>>
    ELSE IF hard # "none" /\ ~st.components[hard].deployed
    THEN /\ calls' = calls \o <<"deploy:" \o c, "failed:" \o c>>
         /\ IF rethrow THEN Throw ELSE pc' = next /\ outcome' = outcome
         /\ UNCHANGED <<disk, st, releases>>
    ELSE \E res \in DeployResults(c) :
         LET ret == DeployReturn(c, hard, swallow, res)
             skip == c \in releases /\ ~cmd.force
         IN  /\ releases' = IF ~skip /\ InstallsRelease(res)
                            THEN releases \cup {c} ELSE releases
             /\ IF ret = "throw"
                THEN /\ IF rethrow THEN Throw ELSE pc' = next /\ outcome' = outcome
                     /\ UNCHANGED <<disk, st>>
                ELSE saveState(updateComponentState(st, c, DeployRecord(c, ret)),
                               next, outcome)
             /\ Log((IF skip THEN <<"deploy:" \o c>> ELSE DeployCalls(c, res))
                    \o (IF ret = "throw" THEN <<"failed:" \o c>> ELSE <<>>))

DeployKeycloak ==
    /\ pc = "u_keycloak"
    /\ DeployBlock("keycloak", "none", FALSE, TRUE)
    /\ UNCHANGED <<cmd, now, runs, prev, loaded, pending, poll>>

DeployPolaris ==
    /\ pc = "u_polaris"
    /\ DeployBlock("polaris", "keycloak", TRUE, FALSE)
    /\ UNCHANGED <<cmd, now, runs, prev, loaded, pending, poll>>

\* The catch clause of trino's block rethrowing, as keycloak's does.
DeployTrino_rethrows ==
    /\ pc = "u_trino"
    /\ DeployBlock("trino", "polaris", FALSE, TRUE)
    /\ UNCHANGED <<cmd, now, runs, prev, loaded, pending, poll>>

DeployTrino ==
    /\ pc = "u_trino"
    /\ DeployBlock("trino", "polaris", FALSE, FALSE)
    /\ UNCHANGED <<cmd, now, runs, prev, loaded, pending, poll>>

DeploySpark ==
    /\ pc = "u_spark"
    /\ DeployBlock("spark", "none", FALSE, FALSE)
    /\ UNCHANGED <<cmd, now, runs, prev, loaded, pending, poll>>

DeployOpa ==
    /\ pc = "u_opa"
    /\ DeployBlock("opa", "none", FALSE, FALSE)
    /\ UNCHANGED <<cmd, now, runs, prev, loaded, pending, poll>>

\* up.ts 512-531: the final save, then the summary (getNodeStatus throws
\* when kubectl fails).
UpFinal ==
    /\ pc = "u_final"
    /\ \E nodeStatusOk \in BOOLEAN :
        saveState(st, "exited",
                  IF st.eks_outputs /\ ~nodeStatusOk THEN "fail" ELSE "ok")
    /\ Log(<<>>)
    /\ UNCHANGED <<cmd, now, runs, releases, prev, loaded, pending, poll>>

\* ------------------------------------------------------------------------
\* down

DownStart ==
    \E f \in BOOLEAN, df \in BOOLEAN :
        Start([NoCmd EXCEPT !.op = "down", !.force = f,
                            !.destroyFoundation = df], "d_check")

\* config.lab.name
LabName == "lab"

\* The lines that are typed at the yes/no prompt and at the prompt for the
\* lab name.
ConfirmAnswers == {"", "y", " YES ", "no"}

DestructiveAnswers == {"", "lab", " lab ", "Lab"}

\* String.prototype.trim on the lines that are typed.
trim(answer) ==
    CASE answer = " YES " -> "YES"
      [] answer = " lab " -> "lab"
      [] OTHER            -> answer

\* An empty line answering yes.
confirm_emptyIsYes(answer, defaultValue) ==
    LET normalized == toLowerCase(trim(answer))
    IN  normalized \in {"", "y", "yes"}

\* prompts.ts confirm
confirm(answer, defaultValue) ==
    LET normalized == toLowerCase(trim(answer))
    IN  IF normalized = "" THEN defaultValue
        ELSE normalized \in {"y", "yes"}

\* The comparison ignoring case.
confirmDestructive_anyCase(answer, confirmationValue) ==
    toLowerCase(trim(answer)) = confirmationValue

\* prompts.ts confirmDestructive
confirmDestructive(answer, confirmationValue) ==
    trim(answer) = confirmationValue

\* The check looking at destroyFoundation before it looks at the cluster.
DownCheck_foundationFirst ==
    /\ pc = "d_check"
    /\ IF cmd.destroyFoundation
       THEN \E answer \in DestructiveAnswers :
                /\ calls' = Append(calls, "confirmDestructive:" \o answer)
                /\ IF confirmDestructive(answer, LabName)
                   THEN pc' = "d_all" /\ outcome' = outcome
                   ELSE Return
       ELSE IF ~st.eks_deployed
       THEN Return /\ calls' = calls
       ELSE IF ~cmd.force
       THEN \E answer \in ConfirmAnswers :
                /\ calls' = Append(calls, "confirm:" \o answer)
                /\ IF confirm(answer, FALSE)
                   THEN pc' = "d_kubectl" /\ outcome' = outcome
                   ELSE Return
       ELSE /\ pc' = "d_kubectl" /\ outcome' = outcome /\ calls' = calls
    /\ UNCHANGED <<disk, st, cmd, now, runs, releases, prev, loaded, pending, poll>>

\* down.ts 283-344: nothing to tear down, or the confirmation; answer is
\* the line typed at the prompt.
DownCheck ==
    /\ pc = "d_check"
    /\ IF ~st.eks_deployed
       THEN Return /\ calls' = calls
       ELSE IF cmd.destroyFoundation
       THEN \E answer \in DestructiveAnswers :
                /\ calls' = Append(calls, "confirmDestructive:" \o answer)
                /\ IF confirmDestructive(answer, LabName)
                   THEN pc' = "d_all" /\ outcome' = outcome
                   ELSE Return
       ELSE IF ~cmd.force
       THEN \E answer \in ConfirmAnswers :
                /\ calls' = Append(calls, "confirm:" \o answer)
                /\ IF confirm(answer, FALSE)
                   THEN pc' = "d_kubectl" /\ outcome' = outcome
                   ELSE Return
       ELSE /\ pc' = "d_kubectl" /\ outcome' = outcome /\ calls' = calls
    /\ UNCHANGED <<disk, st, cmd, now, runs, releases, prev, loaded, pending, poll>>

\* The components of the first undeploy batch, in the order their branches
\* are started.
FirstBatch == <<"opa", "spark", "trino">>

Undeployable(c) == st.components[c].deployed

RECURSIVE StartedBranches(_)
StartedBranches(i) ==
    IF i > Len(FirstBatch) THEN <<>>
    ELSE (IF Undeployable(FirstBatch[i])
          THEN <<"undeploy:" \o FirstBatch[i]>> ELSE <<>>)
         \o StartedBranches(i + 1)

\* down.ts 346-348 and undeployComponents 25-68: every branch of the first
\* batch is started before any of them is awaited.
UndeployStart ==
    /\ pc = "d_kubectl"
    /\ \E hasKubectl \in BOOLEAN :
        IF hasKubectl /\ st.cluster_ready
        THEN /\ pending' = {c \in {"opa", "spark", "trino"} : Undeployable(c)}
             /\ calls' = calls \o StartedBranches(1)
             /\ pc' = "d_batch"
        ELSE /\ pc' = "d_destroy"
             /\ UNCHANGED <<calls, pending>>
    /\ UNCHANGED <<disk, st, cmd, outcome, now, runs, releases, prev, loaded, poll>>

\* A branch without its try block: its failure rejects the join, which
\* takes down to the cluster destroy.
UndeployBranch_rejects ==
    /\ pc = "d_batch"
    /\ \E c \in pending, ok \in BOOLEAN :
        /\ pending' = pending \ {c}
        /\ IF ok
           THEN /\ releases' = releases \ {c}
                /\ saveState(clearComponentState(st, c), "d_batch", outcome)
           ELSE /\ pc' = "d_destroy"
                /\ UNCHANGED <<disk, st, outcome, releases>>
        /\ Log(IF ok THEN <<"undeployed:" \o c>> ELSE <<>>)
    /\ UNCHANGED <<cmd, now, runs, prev, loaded, poll>>

\* Every branch clearing its component in a copy of the state taken when
\* the command started, and saving that copy.
UndeployBranch_snapshot ==
    /\ pc = "d_batch"
    /\ \E c \in pending, ok \in BOOLEAN :
        /\ pending' = pending \ {c}
        /\ IF ok
           THEN /\ releases' = releases \ {c}
                /\ saveState(clearComponentState(LoadedState, c), "d_batch", outcome)
           ELSE UNCHANGED <<disk, st, pc, outcome, releases>>
        /\ Log(IF ok THEN <<"undeployed:" \o c>> ELSE <<>>)
    /\ UNCHANGED <<cmd, now, runs, prev, loaded, poll>>

\* One branch of the batch settles, in any order with its siblings: the
\* uninstall succeeded ("undeployed:<component>") and the continuation of
\* the branch, which runs without interruption, deletes the component from
\* the one LabState object all branches share and saves it; or the
\* uninstall failed with a warning.
UndeployBranch ==
    /\ pc = "d_batch"
    /\ \E c \in pending, ok \in BOOLEAN :
        /\ pending' = pending \ {c}
        /\ IF ok
           THEN /\ releases' = releases \ {c}
                /\ saveState(clearComponentState(st, c), "d_batch", outcome)
           ELSE UNCHANGED <<disk, st, pc, outcome, releases>>
        /\ Log(IF ok THEN <<"undeployed:" \o c>> ELSE <<>>)
    /\ UNCHANGED <<cmd, now, runs, prev, loaded, poll>>

\* The join not waiting for the branches that are still running.
UndeployJoin_early ==
    /\ pc = "d_batch"
    /\ pc' = "d_polaris"
    /\ UNCHANGED <<disk, st, cmd, calls, outcome, now, runs, releases, prev, loaded, pending, poll>>

\* undeployComponents 70-73: Promise.all has settled
UndeployJoin ==
    /\ pc = "d_batch"
    /\ pending = {}
    /\ pc' = "d_polaris"
    /\ UNCHANGED <<disk, st, cmd, calls, outcome, now, runs, releases, prev, loaded, pending, poll>>

\* A sequential undeploy block of undeployComponents.
UndeployBlock(c, next) ==
    IF ~Undeployable(c)
    THEN /\ pc' = next
         /\ UNCHANGED <<disk, st, calls, outcome, releases>>
    ELSE /\ \E ok \in BOOLEAN :
            IF ok
            THEN /\ releases' = releases \ {c}
                 /\ saveState(clearComponentState(st, c), next, outcome)
            ELSE /\ pc' = next
                 /\ UNCHANGED <<disk, st, outcome, releases>>
         /\ Log(<<"undeploy:" \o c>>)

UndeployPolaris ==
    /\ pc = "d_polaris"
    /\ UndeployBlock("polaris", "d_keycloak")
    /\ UNCHANGED <<cmd, now, runs, prev, loaded, pending, poll>>

UndeployKeycloak ==
    /\ pc = "d_keycloak"
    /\ UndeployBlock("keycloak", "d_shutdown")
    /\ UNCHANGED <<cmd, now, runs, prev, loaded, pending, poll>>

\* gracefulShutdown: the namespace deletions swallow their errors.
GracefulShutdown ==
    /\ pc = "d_shutdown"
    /\ calls' = calls \o <<"deleteNamespace:spark", "deleteNamespace:trino">>
    /\ \E deleted \in BOOLEAN :
        releases' = IF deleted THEN releases \ {"spark", "trino"} ELSE releases
    /\ pc' = "d_destroy"
    /\ UNCHANGED <<disk, st, cmd, outcome, now, runs, prev, loaded, pending, poll>>

DestroyResults == {"init_fail", "destroy_fail", "ok"}

\* init and destroy of a module; a failed destroy is followed by its error.
DestroyCalls(module, res) ==
    CASE res = "init_fail"    -> <<"init:" \o module>>
      [] res = "destroy_fail" -> <<"init:" \o module, "destroy:" \o module,
                                   "failed:" \o module>>
      [] OTHER                -> <<"init:" \o module, "destroy:" \o module>>

\* down.ts 371-373 with destroyEks
DestroyEks ==
    /\ pc = "d_destroy"
    /\ \E res \in DestroyResults :
        /\ calls' = calls \o DestroyCalls("ephemeral", res)
        /\ IF res = "ok"
           THEN /\ releases' = {}
                /\ pc' = "d_final"
                /\ outcome' = outcome
           ELSE Throw /\ releases' = releases
    /\ UNCHANGED <<disk, st, cmd, now, runs, prev, loaded, pending, poll>>

\* How an inspection command of the aws CLI can end: the resource is there,
\* it is reported missing, or the command itself fails.
VerifyResults == {"ok", "missing", "call_fail"}

\* checkS3BucketExists passing the failure of its command on to the caller.
checkS3BucketExists_rethrows(res) ==
    CASE res = "ok"      -> "true"
      [] res = "missing" -> "false"
      [] OTHER           -> "throw"

\* aws.ts checkS3BucketExists: true, or false from its catch clause, which
\* catches everything.
checkS3BucketExists(res) ==
    CASE res = "ok" -> "true"
      [] OTHER      -> "false"

\* aws.ts checkAuroraClusterStatus: the status, or null from its catch
\* clause, which catches everything.
checkAuroraClusterStatus(res) ==
    CASE res = "ok" -> "available"
      [] OTHER      -> "null"

\* verifyFoundationIntact: the two inspections, each followed by a warning
\* when the resource is not found; an error of an inspection would go up to
\* the command.
verifyFoundationIntact(s3, aurora) ==
    IF ~st.foundation_outputs
    THEN [throws |-> FALSE, calls |-> <<>>]
    ELSE IF checkS3BucketExists(s3) = "throw"
    THEN [throws |-> TRUE, calls |-> <<"checkS3BucketExists:" \o s3>>]
    ELSE [throws |-> FALSE,
          calls  |-> <<"checkS3BucketExists:" \o s3>>
                     \o (IF checkS3BucketExists(s3) = "false"
                         THEN <<"warn:s3">> ELSE <<>>)
                     \o <<"checkAuroraClusterStatus:" \o aurora>>
                     \o (IF checkAuroraClusterStatus(aurora) = "null"
                         THEN <<"warn:aurora">> ELSE <<>>)]

\* The final save of down resetting the foundation flag as destroyAll does.
DownFinal_clearsAll ==
    /\ pc = "d_final"
    /\ \E s3 \in VerifyResults, aurora \in VerifyResults :
        LET v == verifyFoundationIntact(s3, aurora)
        IN  /\ IF v.throws
               THEN Throw /\ UNCHANGED <<disk, st>>
               ELSE saveState(clearEphemeralState(
                        [st EXCEPT !.foundation_deployed = FALSE]), "exited", "ok")
            /\ Log(v.calls)
    /\ UNCHANGED <<cmd, now, runs, releases, prev, loaded, pending, poll>>

\* down.ts 375-381: the verification only warns; then the ephemeral state
\* is cleared and saved.
DownFinal ==
    /\ pc = "d_final"
    /\ \E s3 \in VerifyResults, aurora \in VerifyResults :
        LET v == verifyFoundationIntact(s3, aurora)
        IN  /\ IF v.throws
               THEN Throw /\ UNCHANGED <<disk, st>>
               ELSE saveState(clearEphemeralState(st), "exited", "ok")
            /\ Log(v.calls)
    /\ UNCHANGED <<cmd, now, runs, releases, prev, loaded, pending, poll>>

\* The state backend destroyed before the layers that keep their state
\* in it.
DestroyLayers_backendFirst ==
    (IF st.bootstrapped THEN <<"bootstrap">> ELSE <<>>)
    \o (IF st.eks_deployed THEN <<"ephemeral">> ELSE <<>>)
    \o (IF st.foundation_deployed THEN <<"foundation">> ELSE <<>>)

\* destroyAll: the layers that are recorded, in order; the first failing
\* destroy throws.  layers is the sequence of modules whose destroy is due.
DestroyLayers ==
    (IF st.eks_deployed THEN <<"ephemeral">> ELSE <<>>)
    \o (IF st.foundation_deployed THEN <<"foundation">> ELSE <<>>)
    \o (IF st.bootstrapped THEN <<"bootstrap">> ELSE <<>>)

RECURSIVE DestroyAllCalls(_, _, _)
DestroyAllCalls(layers, failAt, res) ==
    IF layers = <<>> THEN <<>>
    ELSE IF failAt = 1 THEN DestroyCalls(Head(layers), res)
    ELSE DestroyCalls(Head(layers), "ok")
         \o DestroyAllCalls(Tail(layers), failAt - 1, res)

DestroyAll ==
    /\ pc = "d_all"
    /\ \E failAt \in 0..Len(DestroyLayers), res \in {"init_fail", "destroy_fail"} :
        /\ releases' = IF st.eks_deployed /\ failAt # 1 THEN {} ELSE releases
        /\ IF failAt # 0
           THEN Throw /\ UNCHANGED <<disk, st>>
           ELSE saveState(clearEphemeralState(
                    [st EXCEPT !.bootstrapped = FALSE, !.bootstrap_outputs = FALSE,
                               !.foundation_deployed = FALSE,
                               !.foundation_outputs = FALSE,
                               !.absent = {}]), "exited", "ok")
        /\ Log(DestroyAllCalls(DestroyLayers, failAt, res))
    /\ UNCHANGED <<cmd, now, runs, prev, loaded, pending, poll>>

Next ==
    \/ BootstrapStart
    \/ BootstrapCheck
    \/ BootstrapStateBackend
    \/ DeployFoundation
    \/ BootstrapFinal
    \/ UpStart
    \/ PreFlightChecks
    \/ DeployEks
    \/ WaitForEksClusterActive
    \/ PollTest
    \/ PollCheck
    \/ PollSleep
    \/ WaitForClusterReady
    \/ DeployEssentials
    \/ UpComponents
    \/ DeployKeycloak
    \/ DeployPolaris
    \/ DeployTrino
    \/ DeploySpark
    \/ DeployOpa
    \/ UpFinal
    \/ DownStart
    \/ DownCheck
    \/ UndeployStart
    \/ UndeployBranch
    \/ UndeployJoin
    \/ UndeployPolaris
    \/ UndeployKeycloak
    \/ GracefulShutdown
    \/ DestroyEks
    \/ DownFinal
    \/ DestroyAll
    \/ Exit
    \/ Abort
    \/ Rerun
    \/ Resume

Spec == Init /\ [][Next]_vars

\* ------------------------------------------------------------------------
\* loadState on a state file found in place: one invocation of a command on
\* each of the files below.

\* The record of a lab after bootstrap.
BootstrappedRecord ==
    updateFoundationState(updateBootstrapState(
        [InitialState EXCEPT !.created_at = 1, !.updated_at = 1]))

\* The record of a lab after up --all.
RunningRecord ==
    [updateClusterReadyState(updateEksState(BootstrappedRecord), TRUE)
        EXCEPT !.components = [c \in availableComponents |-> ComponentState(c, TRUE, 1)]]

\* Well-formed JSON that is no LabState: the records above without the
\* keys of phase flags.
NoFlagsRecord ==
    [InitialState EXCEPT !.created_at = 1, !.updated_at = 1, !.absent = PhaseFlags]

NoEksFlagRecord == [BootstrappedRecord EXCEPT !.absent = {"eks_deployed"}]

PersistedFiles ==
    {NoFile, TornFile(InitialState), File(BootstrappedRecord), File(RunningRecord),
     File(NoFlagsRecord), File(NoEksFlagRecord)}

LoadInit ==
    /\ disk \in PersistedFiles
    /\ st = InitialState
    /\ pc = "idle"
    /\ cmd = NoCmd
    /\ calls = <<>>
    /\ outcome = "none"
    /\ now = 0
    /\ runs = 0
    /\ releases = {c \in availableComponents : disk.rec.components[c].deployed}
    /\ prev = NoPrev
    /\ loaded = NoFile
    /\ pending = {}
    /\ poll = PollIdle

\* The one invocation.
LoadBootstrap == runs = 0 /\ BootstrapStart

LoadUp == runs = 0 /\ UpStart

LoadDown == runs = 0 /\ DownStart

LoadNext ==
    \/ LoadBootstrap
    \/ LoadUp
    \/ LoadDown
    \/ BootstrapCheck
    \/ BootstrapStateBackend
    \/ DeployFoundation
    \/ BootstrapFinal
    \/ PreFlightChecks
    \/ DeployEks
    \/ WaitForEksClusterActive
    \/ PollTest
    \/ PollCheck
    \/ PollSleep
    \/ WaitForClusterReady
    \/ DeployEssentials
    \/ UpComponents
    \/ DeployKeycloak
    \/ DeployPolaris
    \/ DeployTrino
    \/ DeploySpark
    \/ DeployOpa
    \/ UpFinal
    \/ DownCheck
    \/ UndeployStart
    \/ UndeployBranch
    \/ UndeployJoin
    \/ UndeployPolaris
    \/ UndeployKeycloak
    \/ GracefulShutdown
    \/ DestroyEks
    \/ DownFinal
    \/ DestroyAll

LoadSpec == LoadInit /\ [][LoadNext]_vars

\* ------------------------------------------------------------------------
\* Properties

Has(call) == \E i \in DOMAIN calls : calls[i] = call

Chain(r) ==
    /\ r.cluster_ready => r.eks_deployed
    /\ r.eks_deployed => r.foundation_deployed
    /\ r.foundation_deployed => r.bootstrapped

\* C1: every record that saveState has written to the state file satisfies
\* cluster_ready => eks_deployed => foundation_deployed => bootstrapped,
\* whatever commands ran and whichever of their external calls failed.
C1_PhaseChain == (disk.exists /\ disk.intact) => Chain(disk.rec)

\* A down has cleared the ephemeral flags of a lab that was ready.
C1_Witness ==
    /\ pc = "exited" /\ cmd.op = "down" /\ outcome = "ok"
    /\ loaded.exists /\ loaded.rec.cluster_ready
    /\ disk.intact /\ ~disk.rec.eks_deployed /\ disk.rec.foundation_deployed

\* C2: saveState is all-or-nothing: whenever the process is gone, also when
\* it was killed during a save, the state file is one a loadState can read
\* (the complete previous or the complete new record).
C2_AllOrNothing == pc = "idle" => ~LoadFails

\* The invocation that follows an up that was killed, itself an up without
\* force.
AfterAbortedUp ==
    /\ prev.outcome = "aborted" /\ prev.cmd.op = "up"
    /\ cmd.op = "up" /\ ~cmd.force

\* The up has got past its cluster provisioning step.
PastClusterStep ==
    /\ pc \notin {"idle", "torn", "u_preflight", "u_eks"}
    /\ ~(pc = "exited" /\ outcome = "fail" /\ calls = <<>>)

\* C3: the up that follows a killed up reads the record the killed up left
\* and skips the cluster stage if and only if that record has eks_deployed;
\* otherwise it runs the cluster stage again.
C3_Resumption ==
    AfterAbortedUp =>
        /\ loaded.exists => loaded.intact
        /\ PastClusterStep => (Has("init:ephemeral") <=> ~LoadedState.eks_deployed)

\* A bootstrap has ended in a failure of the foundation apply after it
\* applied the state backend.
FoundationFailedAfterBackend ==
    /\ cmd.op = "bootstrap" /\ pc = "exited" /\ outcome = "fail"
    /\ Has("apply:bootstrap") /\ Has("apply:foundation")

\* A bootstrap without force started from a record that has the state
\* backend but not the foundation.
LaterBootstrap ==
    /\ cmd.op = "bootstrap" /\ ~cmd.force
    /\ LoadedState.bootstrapped /\ ~LoadedState.foundation_deployed

\* Such a bootstrap never touches the state backend, and does not finish
\* without having run the foundation stage unless told to skip it.
ResumesAtFoundation ==
    LaterBootstrap =>
        /\ ~Has("init:bootstrap")
        /\ (pc \in {"b_final", "exited"} /\ ~cmd.skipFoundation)
              => Has("init:foundation")

\* C4 as claimed: when the state-backend apply succeeds and the foundation
\* apply then fails, the state file has bootstrapped with the bootstrap
\* outputs and foundation_deployed = false, and a later bootstrap without
\* force runs only the foundation stage.
C4_TwoCheckpoints ==
    /\ FoundationFailedAfterBackend =>
          /\ disk.exists /\ disk.intact
          /\ disk.rec.bootstrapped /\ disk.rec.bootstrap_outputs
          /\ ~disk.rec.foundation_deployed
    /\ ResumesAtFoundation

\* C4 as amended: in that case the state file has bootstrapped with the
\* bootstrap outputs and foundation_deployed as it was when the bootstrap
\* started (false unless a forced bootstrap ran on a lab whose foundation was
\* recorded), and a later bootstrap without force on a record without
\* the foundation runs only the foundation stage.
C4_TwoCheckpointsAmended ==
    /\ FoundationFailedAfterBackend =>
          /\ disk.exists /\ disk.intact
          /\ disk.rec.bootstrapped /\ disk.rec.bootstrap_outputs
          /\ disk.rec.foundation_deployed = LoadedState.foundation_deployed
    /\ ResumesAtFoundation

\* The foundation apply failed on a lab that had no foundation, and the
\* first checkpoint is in the state file.
C4_Witness ==
    /\ FoundationFailedAfterBackend
    /\ ~LoadedState.foundation_deployed
    /\ disk.rec.bootstrapped /\ ~disk.rec.foundation_deployed

\* The calls of the deployment of component c.
CallsOf(c) == {"deploy:" \o c, "prepare:" \o c, "install:" \o c}

\* The calls by which a component deployment changes the cluster.
ComponentMutations ==
    UNION {{"prepare:" \o c, "install:" \o c} : c \in availableComponents}

\* Provisioner apply and destroy, kubeconfig update, namespace and secret
\* creation, and the component deployment steps.
MutatingCalls ==
    {"apply:bootstrap", "apply:foundation", "apply:ephemeral",
     "destroy:bootstrap", "destroy:foundation", "destroy:ephemeral",
     "kubeconfig", "createNamespace", "createSecret"} \cup ComponentMutations

\* The running command is an up without force that repeats the command
\* line of the up that just ended with exit code 0.
SecondUp ==
    /\ cmd.op = "up" /\ ~cmd.force
    /\ prev.cmd = cmd /\ prev.outcome = "ok"

\* C5: an up without force that repeats an up that completed successfully
\* makes no mutating call.
C5_NoMutatingCall ==
    SecondUp => \A i \in DOMAIN calls : calls[i] \notin MutatingCalls

\* C6: when such a repeated up has completed, the state file holds the
\* record the first up left, in every field except updated_at.
C6_SameRecord ==
    (SecondUp /\ pc = "exited" /\ outcome = "ok") =>
        /\ disk.exists /\ disk.intact
        /\ disk.rec = [loaded.rec EXCEPT !.updated_at = disk.rec.updated_at]

\* C7: an up with dryRun calls nothing but the provisioner's init and plan
\* and leaves the state file as it found it.
C7_DryRunPlansOnly ==
    (cmd.op = "up" /\ cmd.dryRun) =>
        /\ \A i \in DOMAIN calls : calls[i] \in {"init:ephemeral", "plan:ephemeral"}
        /\ disk = loaded

\* C8: within one up no call of keycloak's deployment comes after a call of
\* polaris's or trino's, and no call of polaris's after a call of trino's.
C8_DependencyOrder ==
    cmd.op = "up" =>
        \A j \in DOMAIN calls :
            /\ calls[j] \in CallsOf("keycloak") =>
                  \A i \in 1..(j - 1) :
                      calls[i] \notin CallsOf("polaris") \cup CallsOf("trino")
            /\ calls[j] \in CallsOf("polaris") =>
                  \A i \in 1..(j - 1) : calls[i] \notin CallsOf("trino")

\* An up has attempted keycloak, polaris and trino and installed all three.
C8_Witness ==
    /\ cmd.op = "up" /\ pc = "exited"
    /\ Has("install:keycloak") /\ Has("install:polaris") /\ Has("install:trino")
    /\ st.components["trino"].deployed

\* Component c is requested while the component it needs is neither
\* requested nor recorded as deployed.
Unmet(c, hard) ==
    /\ c \in componentsToDeploy
    /\ hard \notin componentsToDeploy
    /\ ~LoadedState.components[hard].deployed

\* C9: an up that requests a component with an unmet hard dependency makes
\* no component deployment step at all.
C9_FailFast ==
    (cmd.op = "up" /\ (Unmet("polaris", "keycloak") \/ Unmet("trino", "polaris"))) =>
        \A i \in DOMAIN calls : calls[i] \notin ComponentMutations

\* The deployment of c was attempted by the running up and c is not
\* recorded as deployed.
DeployFailed(c) ==
    /\ cmd.op = "up" /\ pc # "torn"
    /\ Has("deploy:" \o c)
    /\ ~st.components[c].deployed

\* C10: when the deployment of keycloak or of polaris fails, the up ends
\* with exit code 1 and attempts no component that comes later.
C10_HardFailureAborts ==
    /\ DeployFailed("keycloak") =>
          /\ pc = "exited" /\ outcome = "fail"
          /\ \A c \in {"polaris", "trino", "spark", "opa"} : ~Has("deploy:" \o c)
    /\ DeployFailed("polaris") =>
          /\ pc = "exited" /\ outcome = "fail"
          /\ \A c \in {"trino", "spark", "opa"} : ~Has("deploy:" \o c)

\* The running up reported a failure of the deployment of c.
Failed(c) == cmd.op = "up" /\ pc # "torn" /\ Has("failed:" \o c)

\* The up has left the block of every component.
BlocksDone == pc \in {"u_final", "exited"}

C12_FailureRecorded ==
    \A c \in {"polaris", "trino", "spark", "opa"} :
        (Failed(c) /\ BlocksDone) =>
            /\ disk.rec.components[c].present
            /\ ~disk.rec.components[c].deployed

\* C13: an up --all in which trino's deployment failed ends with a non-zero
\* exit code.
C13_TrinoFailureExitCode ==
    (cmd.all /\ Failed("trino") /\ pc = "exited") => outcome = "fail"

\* Call a was made before call b.
Before(a, b) ==
    \E i \in DOMAIN calls, j \in DOMAIN calls : i < j /\ calls[i] = a /\ calls[j] = b

Batch == {"opa", "spark", "trino"}

\* The running command is a down that found all five components recorded
\* as deployed.
DownOfAllFive ==
    /\ cmd.op = "down" /\ pc # "torn"
    /\ \A c \in availableComponents : LoadedState.components[c].deployed

\* C14: in a down that finds the five components deployed, the undeploys
\* of trino, spark and opa are started together, before any of them has
\* finished; polaris's undeploy starts only when every branch of that batch
\* has finished, and keycloak's only after polaris's.
C14_UndeployOrder ==
    DownOfAllFive =>
        /\ (\E c \in Batch : Has("undeploy:" \o c))
              => \A c \in Batch : Has("undeploy:" \o c)
        /\ (pc = "d_batch" /\ pending # Batch)
              => \A c \in Batch : Has("undeploy:" \o c)
        /\ Has("undeploy:polaris")
              => /\ pending = {}
                 /\ \A c \in Batch : Before("undeploy:" \o c, "undeploy:polaris")
        /\ Has("undeploy:keycloak") => Before("undeploy:polaris", "undeploy:keycloak")

\* Such a down has undeployed keycloak, the last one.
C14_Witness ==
    /\ DownOfAllFive /\ Has("undeploy:keycloak")
    /\ ~st.components["keycloak"].deployed

\* The running down has started the branches of the first batch.
BatchStarted ==
    /\ cmd.op = "down" /\ pc # "torn"
    /\ \E c \in Batch : Has("undeploy:" \o c)

\* The running down has left the first batch behind.
PastBatch == BatchStarted /\ pc # "d_batch"

\* The undeploy of c was started by the running down, has settled, and c is
\* still recorded as deployed.
UndeployFailed(c) ==
    /\ cmd.op = "down" /\ pc # "torn"
    /\ Has("undeploy:" \o c) /\ c \notin pending
    /\ st.components[c].deployed

\* C15: every deployed member of the first batch is attempted and has
\* settled before down goes on; a failed branch does not keep a sibling from
\* being attempted, nor polaris and keycloak from being undeployed, nor the
\* cluster from being destroyed.
C15_BatchSettles ==
    /\ BatchStarted =>
          \A c \in Batch : LoadedState.components[c].deployed => Has("undeploy:" \o c)
    /\ PastBatch => pending = {}
    /\ (PastBatch /\ \E c \in Batch : UndeployFailed(c)) =>
          /\ (pc # "d_polaris" /\ LoadedState.components["polaris"].deployed)
                => Has("undeploy:polaris")
          /\ (pc \notin {"d_polaris", "d_keycloak"}
                 /\ LoadedState.components["keycloak"].deployed)
                => Has("undeploy:keycloak")
          /\ pc = "exited" => Has("init:ephemeral")

\* A down in which trino's undeploy failed and a sibling's succeeded has
\* undeployed polaris and destroyed the cluster.
C15_Witness ==
    /\ PastBatch /\ pc = "exited" /\ UndeployFailed("trino")
    /\ LoadedState.components["spark"].deployed /\ ~st.components["spark"].deployed
    /\ Has("undeploy:polaris") /\ Has("destroy:ephemeral")

\* C16: down never calls the undeploy of polaris while trino is still
\* recorded as deployed, nor the undeploy of keycloak while polaris is.
C16_DependentsFirst ==
    (cmd.op = "down" /\ pc # "torn") =>
        /\ Has("undeploy:polaris") => ~st.components["trino"].deployed
        /\ Has("undeploy:keycloak") => ~st.components["polaris"].deployed

\* The running command is a down without destroyFoundation.
NormalDown == cmd.op = "down" /\ ~cmd.destroyFoundation

\* C17: when a down without destroyFoundation has destroyed the cluster and
\* ended with exit code 0, the state file has eks_deployed, cluster_ready
\* and essentials_deployed false and no component recorded as deployed.
C17_EphemeralCleared ==
    (NormalDown /\ pc = "exited" /\ outcome = "ok" /\ Has("destroy:ephemeral")) =>
            /\ disk.exists
            /\ disk.intact
            /\ ~disk.rec.eks_deployed /\ ~disk.rec.cluster_ready
            /\ ~disk.rec.essentials_deployed
            /\ \A c \in availableComponents : ~disk.rec.components[c].deployed

FoundationFields(r) ==
    <<r.bootstrapped, r.bootstrap_outputs, r.foundation_deployed, r.foundation_outputs>>

\* C18: a down without destroyFoundation never calls destroy (nor init) on
\* the foundation or the state-backend module, and every record it writes
\* has bootstrapped, bootstrap_outputs, foundation_deployed and
\* foundation_outputs as the down found them.
C18_FoundationUntouched ==
    (NormalDown /\ pc # "torn") =>
        /\ \A m \in {"foundation", "bootstrap"} :
              ~Has("init:" \o m) /\ ~Has("destroy:" \o m)
        /\ FoundationFields(st) = FoundationFields(LoadedState)
        /\ (disk.exists /\ disk.intact) =>
              FoundationFields(disk.rec) = FoundationFields(LoadedState)

\* A forced down without destroyFoundation has destroyed the cluster of a
\* lab with a foundation and written the cleared record.
C18_Witness ==
    /\ NormalDown /\ cmd.force /\ pc = "exited" /\ outcome = "ok"
    /\ Has("destroy:ephemeral")
    /\ loaded.rec.foundation_deployed /\ loaded.rec.eks_deployed
    /\ disk.rec.foundation_deployed /\ ~disk.rec.eks_deployed

\* The calls by which a down takes something down.
TeardownCalls ==
    {"undeploy:" \o c : c \in availableComponents}
    \cup {"deleteNamespace:spark", "deleteNamespace:trino"}
    \cup {"init:" \o m : m \in {"ephemeral", "foundation", "bootstrap"}}
    \cup {"destroy:" \o m : m \in {"ephemeral", "foundation", "bootstrap"}}

\* The running down has neither taken anything down nor written the state.
NothingDone ==
    /\ \A i \in DOMAIN calls : calls[i] \notin TeardownCalls
    /\ disk = loaded

\* The lines that answer yes.
YesAnswers == {"y", " YES "}

\* C19: a down without destroyFoundation and without force takes nothing
\* down and writes no state unless the prompt was answered yes (the empty
\* line is not a yes); with force it does not prompt.
C19_ConfirmedOnly ==
    (NormalDown /\ pc # "torn") =>
        /\ (~cmd.force /\ \A a \in YesAnswers : ~Has("confirm:" \o a)) => NothingDone
        /\ cmd.force => \A a \in ConfirmAnswers : ~Has("confirm:" \o a)

\* The prompt of a down on a running cluster was answered with the empty
\* line and the down has ended.
C19_Witness ==
    /\ NormalDown /\ ~cmd.force /\ pc = "exited"
    /\ LoadedState.eks_deployed /\ Has("confirm:") /\ outcome = "ok"

\* C20 as claimed: a down with destroyFoundation takes nothing down and
\* writes no state unless the line typed at the prompt is the lab name,
\* character for character; force does not change this.
C20_ExactName ==
    (cmd.op = "down" /\ cmd.destroyFoundation /\ pc # "torn"
        /\ ~Has("confirmDestructive:" \o LabName)) => NothingDone

\* The lines that are the lab name between leading and trailing blanks.
NameAnswers == {"lab", " lab "}

\* C20: a down with destroyFoundation takes nothing down and writes no
\* state unless the line typed at the prompt, without its leading and
\* trailing blanks, is the lab name; force does not change this.
C20_TrimmedName ==
    (cmd.op = "down" /\ cmd.destroyFoundation /\ pc # "torn"
        /\ \A a \in NameAnswers : ~Has("confirmDestructive:" \o a)) => NothingDone

\* A forced down with destroyFoundation was answered with the lab name in
\* another case and has ended without doing anything.
C20_Witness ==
    /\ cmd.op = "down" /\ cmd.destroyFoundation /\ cmd.force
    /\ pc = "exited" /\ Has("confirmDestructive:Lab")
    /\ LoadedState.eks_deployed /\ NothingDone

\* The running command is a down with destroyFoundation.
FullDown == cmd.op = "down" /\ cmd.destroyFoundation /\ pc # "torn"

\* The destroy of module m was called and did not fail.
Destroyed(m) == Has("destroy:" \o m) /\ ~Has("failed:" \o m)

\* C21: a down with destroyFoundation destroys the cluster, then the
\* foundation, then the state backend: a layer is touched only after the
\* destroy of every recorded layer before it succeeded, and a failed
\* destroy is the last call of the command, which ends with exit code 1.
C21_LayerOrder ==
    FullDown =>
        /\ Has("init:foundation") =>
              (LoadedState.eks_deployed =>
                  /\ Destroyed("ephemeral")
                  /\ Before("destroy:ephemeral", "init:foundation"))
        /\ Has("init:bootstrap") =>
              /\ LoadedState.eks_deployed =>
                    /\ Destroyed("ephemeral")
                    /\ Before("destroy:ephemeral", "init:bootstrap")
              /\ LoadedState.foundation_deployed =>
                    /\ Destroyed("foundation")
                    /\ Before("destroy:foundation", "init:bootstrap")
        /\ \A m \in {"ephemeral", "foundation", "bootstrap"} :
              Has("failed:" \o m) =>
                  /\ calls[Len(calls)] = "failed:" \o m
                  /\ pc = "exited" /\ outcome = "fail"

\* The three layers were destroyed one after the other.
C21_Witness ==
    /\ FullDown /\ pc = "exited" /\ outcome = "ok"
    /\ Destroyed("ephemeral") /\ Destroyed("foundation") /\ Destroyed("bootstrap")

\* C22: after a down with destroyFoundation that succeeded, the state file
\* holds the initial record: every phase flag false, no outputs, and no
\* component record.
C22_InitialRecord ==
    (FullDown /\ pc = "exited" /\ outcome = "ok" /\ Has("destroy:ephemeral")) =>
        /\ disk.exists /\ disk.intact
        /\ ~disk.rec.bootstrapped /\ ~disk.rec.bootstrap_outputs
        /\ ~disk.rec.foundation_deployed /\ ~disk.rec.foundation_outputs
        /\ ~disk.rec.eks_deployed /\ ~disk.rec.eks_outputs
        /\ ~disk.rec.cluster_ready /\ ~disk.rec.cluster_context
        /\ ~disk.rec.essentials_deployed
        /\ \A c \in availableComponents : disk.rec.components[c] = NoComponent

\* C23: when the cluster destroy of a down has succeeded and a later
\* destroy of the same invocation fails, the state file already has
\* eks_deployed and cluster_ready false.
C23_CheckpointedTeardown ==
    (cmd.op = "down" /\ pc = "exited" /\ outcome = "fail"
        /\ Destroyed("ephemeral")
        /\ (Has("failed:foundation") \/ Has("failed:bootstrap"))) =>
        /\ disk.exists /\ disk.intact
        /\ ~disk.rec.eks_deployed /\ ~disk.rec.cluster_ready

Modules == {"bootstrap", "foundation", "ephemeral"}

\* How many times the running command has made a call.
Count(call) == Cardinality({i \in DOMAIN calls : calls[i] = call})

\* C29: within one invocation the apply and the destroy of a module and
\* the install and the uninstall of a release are each called at most
\* once, also when the call failed.
C29_NoRetry ==
    /\ \A m \in Modules : Count("apply:" \o m) <= 1 /\ Count("destroy:" \o m) <= 1
    /\ \A c \in availableComponents :
          Count("install:" \o c) <= 1 /\ Count("undeploy:" \o c) <= 1

\* A bootstrap has ended after its foundation apply failed.
C29_Witness ==
    /\ cmd.op = "bootstrap" /\ pc = "exited"
    /\ Has("failed:foundation") /\ Count("apply:foundation") = 1

\* The phase flag that the stage of module m sets and its destroy clears.
PhaseFlag(r, m) ==
    CASE m = "bootstrap"  -> r.bootstrapped
      [] m = "foundation" -> r.foundation_deployed
      [] m = "ephemeral"  -> r.eks_deployed

\* C30: when the apply or the destroy of a module has failed, the command
\* has ended with exit code 1, the failure is its last call, and the phase
\* flag of that module in the state file is as the command found it.
C30_FailureAborts ==
    \A m \in Modules :
        (pc # "torn" /\ Has("failed:" \o m)) =>
            /\ pc = "exited" /\ outcome = "fail"
            /\ calls[Len(calls)] = "failed:" \o m
            /\ disk.intact
            /\ PhaseFlag(disk.rec, m) = PhaseFlag(loaded.rec, m)

\* The cluster apply of an up has failed.
C30_Witness ==
    /\ cmd.op = "up" /\ pc = "exited" /\ outcome = "fail"
    /\ Has("apply:ephemeral") /\ Has("failed:ephemeral")
    /\ ~disk.rec.eks_deployed

\* C24: a wait with timeout 0 makes at most one check, never sleeps, and
\* ends with the timeout error.
C24_ZeroTimeout ==
    (poll.at # "idle" /\ poll.timeout = 0) =>
        /\ poll.checks <= 1
        /\ poll.at \in {"test", "done"}
        /\ poll.at = "done" => poll.result = "timeout"

\* A wait with timeout 0 has ended.
C24_Witness ==
    /\ poll.timeout = 0 /\ poll.at = "done"
    /\ poll.result = "timeout" /\ poll.checks = 0

\* The observations of a check that are transient errors.
TransientOutcomes == {"not_found", "query_error"}

\* C26: in no wait does a check that fails with a transient error end the
\* wait with an error; the wait sleeps and checks again.
C26_TransientContinues ==
    (poll.at = "done" /\ poll.result = "fatal") => poll.last \notin TransientOutcomes

\* The number of checks a wait can make: one per poll interval begun
\* before the timeout.
MaxChecks(w, t) == (t + PollInterval(w) - 1) \div PollInterval(w)

C27_Bounded ==
    poll.at # "idle" =>
        /\ poll.at = "check" => poll.elapsed < poll.timeout
        /\ poll.checks <= MaxChecks(poll.wait, poll.timeout)
        /\ poll.at = "done" => poll.result \in {"ready", "fatal", "timeout"}
        /\ (poll.at = "done" /\ poll.result = "timeout")
              => poll.elapsed >= poll.timeout

\* C27: every wait checks only while the elapsed time is below the
\* timeout, makes a bounded number of checks, and ends, with ready, with
\* an error, or with the timeout error once the timeout has passed.
C27_Terminates ==
    /\ []C27_Bounded
    /\ (poll.at = "test") ~> (poll.at = "done")

\* A wait has timed out after all the checks its timeout allows.
C27_Witness ==
    /\ poll.at = "done" /\ poll.result = "timeout"
    /\ poll.checks = MaxChecks(poll.wait, poll.timeout) /\ poll.checks >= 2

\* C28: once the caller has asked a wait in progress to stop, the wait
\* makes no further check.
C28_Cancellable == [][poll.cancel => poll'.checks <= poll.checks]_vars

\* The cluster wait of the running up has seen the cluster in a state it
\* cannot leave.
ClusterFatal ==
    /\ cmd.op = "up" /\ poll.wait = "eks"
    /\ poll.last \in {"FAILED", "DELETING"}

\* C25: once the cluster status is FAILED or DELETING, the cluster wait has
\* ended with an error at that very check; the up goes no further, ends
\* with exit code 1, and has not set cluster_ready.
C25_FatalAborts ==
    ClusterFatal =>
        /\ poll.at = "done" /\ poll.result = "fatal"
        /\ pc \in {"u_ready", "exited"}
        /\ pc = "exited" => outcome = "fail"
        /\ st.cluster_ready => LoadedState.cluster_ready
        /\ disk.intact /\ (disk.rec.cluster_ready => loaded.rec.cluster_ready)

\* An up has ended after the second status query reported FAILED.
C25_Witness ==
    /\ ClusterFatal /\ poll.last = "FAILED" /\ poll.checks = 2
    /\ pc = "exited" /\ outcome = "fail" /\ ~disk.rec.cluster_ready

\* The foundation verification of the running down has been made.
Verified ==
    cmd.op = "down" /\ pc = "exited"
    /\ \E r \in VerifyResults : Has("checkS3BucketExists:" \o r)

\* C31: whatever the two inspections of the foundation verification report
\* (resource there, resource missing, inspection failed), the down warns
\* and goes on: both inspections are made, the ephemeral flags are cleared
\* in the state file, and the down ends with exit code 0.
C31_VerificationNonFatal ==
    Verified =>
        /\ \E r \in VerifyResults : Has("checkAuroraClusterStatus:" \o r)
        /\ Has("checkS3BucketExists:missing") => Has("warn:s3")
        /\ Has("checkS3BucketExists:call_fail") => Has("warn:s3")
        /\ outcome = "ok"
        /\ disk.exists /\ disk.intact
        /\ ~disk.rec.eks_deployed /\ ~disk.rec.cluster_ready
        /\ ~disk.rec.essentials_deployed

\* A down has ended after the object-store inspection failed and the
\* database was reported missing.
C31_Witness ==
    /\ Verified /\ outcome = "ok"
    /\ Has("checkS3BucketExists:call_fail") /\ Has("checkAuroraClusterStatus:missing")
    /\ Has("warn:aurora") /\ ~disk.rec.eks_deployed

\* The record the running command loaded is well-formed JSON that lacks a
\* required key.
SchemaInvalid == loaded.exists /\ loaded.intact /\ loaded.rec.absent # {}

\* C32: a command started on a state file whose record lacks required keys
\* ends at once with exit code 1, having made no call and left the file as
\* it was.
C32_SchemaRejected ==
    (pc # "idle" /\ SchemaInvalid) =>
        /\ pc = "exited" /\ outcome = "fail"
        /\ calls = <<>>
        /\ disk = loaded

\* The running command is a bootstrap without force on a record that has
\* the state backend and the foundation.
NothingToBootstrap ==
    /\ cmd.op = "bootstrap" /\ ~cmd.force
    /\ LoadedState.bootstrapped /\ LoadedState.foundation_deployed

\* C33: a bootstrap without force on a record with bootstrapped and
\* foundation_deployed makes no call, leaves the state file as it found it
\* and ends with exit code 0.
C33_NoOp ==
    NothingToBootstrap =>
        /\ calls = <<>>
        /\ disk = loaded
        /\ pc \in {"b_check", "exited"}
        /\ pc = "exited" => outcome = "ok"

\* Such a bootstrap has ended.
C33_Witness ==
    /\ NothingToBootstrap /\ pc = "exited" /\ outcome = "ok"
    /\ disk.rec.foundation_deployed

\* The running command is a bootstrap with dryRun and without
\* skipFoundation on a record that is not bootstrapped.
DryBootstrap ==
    /\ cmd.op = "bootstrap" /\ cmd.dryRun /\ ~cmd.skipFoundation
    /\ ~LoadedState.bootstrapped

\* C34: such a bootstrap never calls apply and never writes the state
\* file, and once the plan of the state backend has succeeded it goes on to
\* plan the foundation: its next step calls the foundation's init.
C34_DryRunPlansBoth ==
    /\ [](DryBootstrap =>
            /\ \A m \in Modules : ~Has("apply:" \o m)
            /\ disk = loaded)
    /\ [][(DryBootstrap /\ pc = "b_foundation" /\ pc' # "idle")
            => \E i \in DOMAIN calls' : calls'[i] = "init:foundation"]_vars

\* In record r every component recorded as deployed has its hard
\* dependency recorded as deployed.
DependenciesRecorded(r) ==
    /\ r.components["trino"].deployed => r.components["polaris"].deployed
    /\ r.components["polaris"].deployed => r.components["keycloak"].deployed

\* C35: in every record that bootstrap, up and down have written to the
\* state file, trino deployed implies polaris deployed and polaris deployed
\* implies keycloak deployed.
C35_DependenciesRecorded ==
    (disk.exists /\ disk.intact) => DependenciesRecorded(disk.rec)

\* C36: once the first batch of a down has joined, whatever the order in
\* which its branches settled, the state file records every component of
\* the batch whose undeploy succeeded as absent and every other one as the
\* down found it; at the join keycloak and polaris are as the down found
\* them.
C36_NoLostUpdate ==
    PastBatch =>
        /\ disk.exists /\ disk.intact
        /\ \A c \in Batch :
              disk.rec.components[c] =
                  IF Has("undeployed:" \o c) THEN NoComponent
                  ELSE LoadedState.components[c]
        /\ pc = "d_polaris" =>
              \A c \in {"keycloak", "polaris"} :
                  disk.rec.components[c] = LoadedState.components[c]

\* The batch has joined after trino's and opa's branches succeeded, opa's
\* last, and spark's failed.
C36_Witness ==
    /\ PastBatch /\ pc = "d_polaris"
    /\ Before("undeployed:trino", "undeployed:opa")
    /\ Has("undeploy:spark") /\ ~Has("undeployed:spark")
    /\ disk.rec.components["spark"].deployed
    /\ ~disk.rec.components["trino"].present /\ ~disk.rec.components["opa"].present

\* A forced up has applied the cluster again and has not yet got through
\* the readiness wait that follows: the wait may still fail, and the
\* process may be killed.
ReappliedNotReady ==
    /\ cmd.op = "up" /\ cmd.force /\ pc = "u_ready"
    /\ Has("apply:ephemeral") /\ Has("output:ephemeral")

\* C37: from the moment a forced up has applied the cluster again until its
\* readiness wait has succeeded, the state file has cluster_ready and
\* essentials_deployed false, so that an up that follows a failed or killed
\* wait cannot take the cluster for ready.
C37_ReadinessReset ==
    ReappliedNotReady =>
        /\ disk.exists /\ disk.intact
        /\ ~disk.rec.cluster_ready
        /\ ~disk.rec.essentials_deployed

\* The running command is a down on a record without a cluster; a state
\* file that does not parse is left aside, the command does not start on it.
DownWithoutCluster ==
    /\ cmd.op = "down" /\ ~LoadedState.eks_deployed
    /\ loaded.exists => loaded.intact

AcceptedNames ==
    {c \in cmd.components : toLowerCase(c) \in availableComponents}

\* C39: when an up given component names has gone through the blocks of
\* deployComponents, every name that is a component in lower case was
\* either attempted or reported as unknown.
C39_NamedIsHandled ==
    (cmd.op = "up" /\ ~cmd.all /\ pc = "u_final") =>
        \A c \in AcceptedNames :
            Has("deploy:" \o toLowerCase(c)) \/ Has("unknown:" \o c)

====
